---------------------------- MODULE Spec2Model ----------------------------
(***************************************************************************)
(* Model of the central contact backend (src/server.js): the site registry *)
(* loaded at module load, the POST /v1/contact handler (validation,        *)
(* rendering, dispatch through the mail API, response) and GET /health.    *)
(* The repository holds two other variants of the same server, the SMTP   *)
(* server (src/unnamed/part_001) and the handler snippet                   *)
(* (src/unnamed/part_000); variable build says which one runs.             *)
(*                                                                         *)
(* A JavaScript string is a sequence of one-character strings.  A          *)
(* JavaScript value is a record tagged by its type in field t.  An object  *)
(* is the sequence of its own <<key, value>> entries in the order the JSON *)
(* text names them, each key once.                                         *)
(***************************************************************************)
EXTENDS Naturals, Integers, Sequences, FiniteSets, TLC

VARIABLES build, env, up, SITES, reqs, health

vars == <<build, env, up, SITES, reqs, health>>

----------------------------------------------------------------------------
(* String literals of the source. *)

K_siteId == <<"s","i","t","e","I","d">>
K_consent == <<"c","o","n","s","e","n","t">>
K_hp == <<"h","p">>
K_captchaToken == <<"c","a","p","t","c","h","a","T","o","k","e","n">>
K_meta == <<"m","e","t","a">>
K_message == <<"m","e","s","s","a","g","e">>
K_email == <<"e","m","a","i","l">>
K_allowedOrigins == <<"a","l","l","o","w","e","d","O","r","i","g","i","n","s">>
K_requiredFields == <<"r","e","q","u","i","r","e","d","F","i","e","l","d","s">>
K_fieldLabels == <<"f","i","e","l","d","L","a","b","e","l","s">>
K_fieldOrder == <<"f","i","e","l","d","O","r","d","e","r">>
K_subject == <<"s","u","b","j","e","c","t">>
K_subjectPrefix == <<"s","u","b","j","e","c","t","P","r","e","f","i","x">>
K_to == <<"t","o">>
K_from == <<"f","r","o","m">>
K_toString == <<"t","o","S","t","r","i","n","g">>
K_constructor == <<"c","o","n","s","t","r","u","c","t","o","r">>
K_proto == <<"_","_","p","r","o","t","o","_","_">>
K_length == <<"l","e","n","g","t","h">>
K_name == <<"n","a","m","e">>
K_prototype == <<"p","r","o","t","o","t","y","p","e">>

E_unknownSite == <<"u","n","k","n","o","w","n"," ","s","i","t","e","I","d">>
E_origin == <<"o","r","i","g","i","n"," ","n","o","t"," ","a","l","l","o","w","e","d">>
E_missing == <<"m","i","s","s","i","n","g"," ","r","e","q","u","i","r","e","d"," ","f","i","e","l","d",":"," ">>
E_invalidEmail == <<"i","n","v","a","l","i","d"," ","e","m","a","i","l">>
E_badRequest == <<"b","a","d"," ","r","e","q","u","e","s","t">>
E_internal == <<"I","n","t","e","r","n","a","l"," ","e","r","r","o","r">>

S_Kontakt == <<"K","o","n","t","a","k","t">>
S_Anfrage == <<" ","A","n","f","r","a","g","e">>
S_noreply == <<"n","o","-","r","e","p","l","y","@","e","x","a","m","p","l","e",".","c","o","m">>
S_rowOpen == <<"<","p",">","<","s","t","r","o","n","g",">">>
S_rowMid == <<":","<","/","s","t","r","o","n","g",">"," ">>
S_rowClose == <<"<","/","p",">">>
S_h2OpenSmtp == <<"\n"," "," ","<","h","2",">">>
S_h2CloseSmtp == <<"<","/","h","2",">","\n"," "," ">>
S_htmlEndSmtp == <<"\n">>
S_h2Open == <<"\n"," "," "," "," "," "," ","<","h","2",">">>
S_h2Close == <<"<","/","h","2",">","\n"," "," "," "," "," "," ">>
S_htmlEnd == <<"\n"," "," "," "," ">>
S_colon == <<":"," ">>
S_newline == <<"\n">>
S_comma == <<",">>
S_objectObject == <<"[","o","b","j","e","c","t"," ","O","b","j","e","c","t","]">>
S_true == <<"t","r","u","e">>
S_false == <<"f","a","l","s","e">>
S_null == <<"n","u","l","l">>
S_undefined == <<"u","n","d","e","f","i","n","e","d">>
S_function == <<"f","u","n","c","t","i","o","n"," ">>
T_primitive == <<"C","a","n","n","o","t"," ","c","o","n","v","e","r","t"," ","o","b","j","e","c","t"," ","t","o"," ","p","r","i","m","i","t","i","v","e"," ","v","a","l","u","e">>
T_readNull == <<"C","a","n","n","o","t"," ","r","e","a","d"," ","p","r","o","p","e","r","t","i","e","s"," ","o","f"," ","n","u","l","l">>
T_reading == <<" ","(","r","e","a","d","i","n","g"," ","'">>
S_hashObject == <<"#","<","O","b","j","e","c","t",">">>
T_readEnd == <<"'",")">>
T_notIterable == <<"r","e","q","u","i","r","e","d"," ","i","s"," ","n","o","t"," ","i","t","e","r","a","b","l","e">>
T_notIterableSnippet == <<"r","e","q","F","i","e","l","d","s"," ","i","s"," ","n","o","t"," ","i","t","e","r","a","b","l","e">>
T_match == <<"f","r","o","m","S","t","r",".","m","a","t","c","h"," ","i","s"," ","n","o","t"," ","a"," ","f","u","n","c","t","i","o","n">>
T_indexOf == <<"o","r","d","e","r",".","i","n","d","e","x","O","f"," ","i","s"," ","n","o","t"," ","a"," ","f","u","n","c","t","i","o","n">>
T_slice == <<"(","s","i","t","e",".","s","u","b","j","e","c","t"," ","|","|"," ","(","s","i","t","e",".","s","u","b","j","e","c","t","P","r","e","f","i","x"," ","|","|"," ","\"","K","o","n","t","a","k","t","\"",")",")",".","s","l","i","c","e"," ","i","s"," ","n","o","t"," ","a"," ","f","u","n","c","t","i","o","n">>
S_Infinity == <<"I","n","f","i","n","i","t","y">>
M_provider == <<"p","r","o","v","i","d","e","r"," ","e","r","r","o","r"," ">>
S_native == <<"(",")"," ","{"," ","[","n","a","t","i","v","e"," ","c","o","d","e","]"," ","}">>

(* The names the request handler skips when rendering. *)
IGNORE == {K_siteId, K_consent, K_hp, K_captchaToken, K_meta}

(* subject.slice(0, 160) *)
SubjectMax == 160

(* The comparator's rank of a key that fieldOrder does not list. *)
Unlisted == 9999

----------------------------------------------------------------------------
(* JavaScript values. *)

Undefined == [t |-> "undefined"]
Null == [t |-> "null"]
JStr(s) == [t |-> "string", s |-> s]
JNum(n) == [t |-> "number", n |-> n]
JBool(b) == [t |-> "boolean", b |-> b]
JArr(a) == [t |-> "array", a |-> a]
JObj(e) == [t |-> "object", o |-> e]

\* A built-in function, by the key n it is found under and the object that
\* holds it: the prototype of a kind ("array"), a constructor ("Array"), or
\* the global object for the constructors themselves.
JFun(owner, n) == [t |-> "function", of |-> owner, f |-> n]

\* The prototype object of the values of a kind: Object.prototype,
\* Array.prototype, String.prototype, Number.prototype, Boolean.prototype,
\* Function.prototype.
Proto(kind) == [t |-> "proto", of |-> kind]

EmptyStr == JStr(<<>>)

(* The own string keys of Object.prototype, which every object inherits. *)
ObjectPrototype ==
  {<<"_","_","d","e","f","i","n","e","G","e","t","t","e","r","_","_">>,
   <<"_","_","d","e","f","i","n","e","S","e","t","t","e","r","_","_">>,
   <<"_","_","l","o","o","k","u","p","G","e","t","t","e","r","_","_">>,
   <<"_","_","l","o","o","k","u","p","S","e","t","t","e","r","_","_">>,
   <<"_","_","p","r","o","t","o","_","_">>, <<"c","o","n","s","t","r","u","c","t","o","r">>,
   <<"h","a","s","O","w","n","P","r","o","p","e","r","t","y">>,
   <<"i","s","P","r","o","t","o","t","y","p","e","O","f">>,
   <<"p","r","o","p","e","r","t","y","I","s","E","n","u","m","e","r","a","b","l","e">>,
   <<"t","o","L","o","c","a","l","e","S","t","r","i","n","g">>,
   <<"t","o","S","t","r","i","n","g">>, <<"v","a","l","u","e","O","f">>}

(* The own string keys of Array.prototype. *)
ArrayPrototype ==
  {<<"l","e","n","g","t","h">>, <<"c","o","n","s","t","r","u","c","t","o","r">>, <<"a","t">>,
   <<"c","o","n","c","a","t">>, <<"c","o","p","y","W","i","t","h","i","n">>, <<"f","i","l","l">>,
   <<"f","i","n","d">>, <<"f","i","n","d","I","n","d","e","x">>,
   <<"f","i","n","d","L","a","s","t">>, <<"f","i","n","d","L","a","s","t","I","n","d","e","x">>,
   <<"l","a","s","t","I","n","d","e","x","O","f">>, <<"p","o","p">>, <<"p","u","s","h">>,
   <<"r","e","v","e","r","s","e">>, <<"s","h","i","f","t">>, <<"u","n","s","h","i","f","t">>,
   <<"s","l","i","c","e">>, <<"s","o","r","t">>, <<"s","p","l","i","c","e">>,
   <<"i","n","c","l","u","d","e","s">>, <<"i","n","d","e","x","O","f">>, <<"j","o","i","n">>,
   <<"k","e","y","s">>, <<"e","n","t","r","i","e","s">>, <<"v","a","l","u","e","s">>,
   <<"f","o","r","E","a","c","h">>, <<"f","i","l","t","e","r">>, <<"f","l","a","t">>,
   <<"f","l","a","t","M","a","p">>, <<"m","a","p">>, <<"e","v","e","r","y">>, <<"s","o","m","e">>,
   <<"r","e","d","u","c","e">>, <<"r","e","d","u","c","e","R","i","g","h","t">>,
   <<"t","o","L","o","c","a","l","e","S","t","r","i","n","g">>,
   <<"t","o","S","t","r","i","n","g">>, <<"t","o","R","e","v","e","r","s","e","d">>,
   <<"t","o","S","o","r","t","e","d">>, <<"t","o","S","p","l","i","c","e","d">>,
   <<"w","i","t","h">>}

(* The own string keys of String.prototype. *)
StringPrototype ==
  {<<"l","e","n","g","t","h">>, <<"c","o","n","s","t","r","u","c","t","o","r">>,
   <<"a","n","c","h","o","r">>, <<"a","t">>, <<"b","i","g">>, <<"b","l","i","n","k">>,
   <<"b","o","l","d">>, <<"c","h","a","r","A","t">>, <<"c","h","a","r","C","o","d","e","A","t">>,
   <<"c","o","d","e","P","o","i","n","t","A","t">>, <<"c","o","n","c","a","t">>,
   <<"e","n","d","s","W","i","t","h">>, <<"f","o","n","t","c","o","l","o","r">>,
   <<"f","o","n","t","s","i","z","e">>, <<"f","i","x","e","d">>,
   <<"i","n","c","l","u","d","e","s">>, <<"i","n","d","e","x","O","f">>,
   <<"i","s","W","e","l","l","F","o","r","m","e","d">>, <<"i","t","a","l","i","c","s">>,
   <<"l","a","s","t","I","n","d","e","x","O","f">>, <<"l","i","n","k">>,
   <<"l","o","c","a","l","e","C","o","m","p","a","r","e">>, <<"m","a","t","c","h">>,
   <<"m","a","t","c","h","A","l","l">>, <<"n","o","r","m","a","l","i","z","e">>,
   <<"p","a","d","E","n","d">>, <<"p","a","d","S","t","a","r","t">>, <<"r","e","p","e","a","t">>,
   <<"r","e","p","l","a","c","e">>, <<"r","e","p","l","a","c","e","A","l","l">>,
   <<"s","e","a","r","c","h">>, <<"s","l","i","c","e">>, <<"s","m","a","l","l">>,
   <<"s","p","l","i","t">>, <<"s","t","r","i","k","e">>, <<"s","u","b">>,
   <<"s","u","b","s","t","r">>, <<"s","u","b","s","t","r","i","n","g">>, <<"s","u","p">>,
   <<"s","t","a","r","t","s","W","i","t","h">>, <<"t","o","S","t","r","i","n","g">>,
   <<"t","o","W","e","l","l","F","o","r","m","e","d">>, <<"t","r","i","m">>,
   <<"t","r","i","m","S","t","a","r","t">>, <<"t","r","i","m","L","e","f","t">>,
   <<"t","r","i","m","E","n","d">>, <<"t","r","i","m","R","i","g","h","t">>,
   <<"t","o","L","o","c","a","l","e","L","o","w","e","r","C","a","s","e">>,
   <<"t","o","L","o","c","a","l","e","U","p","p","e","r","C","a","s","e">>,
   <<"t","o","L","o","w","e","r","C","a","s","e">>,
   <<"t","o","U","p","p","e","r","C","a","s","e">>, <<"v","a","l","u","e","O","f">>}

(* The own string keys of Function.prototype. *)
FunctionPrototype ==
  {<<"l","e","n","g","t","h">>,
   <<"n","a","m","e">>,
   <<"a","r","g","u","m","e","n","t","s">>,
   <<"c","a","l","l","e","r">>,
   <<"c","o","n","s","t","r","u","c","t","o","r">>,
   <<"a","p","p","l","y">>,
   <<"b","i","n","d">>,
   <<"c","a","l","l">>,
   <<"t","o","S","t","r","i","n","g">>}

(* f.length of the built-in function f: the parameters it declares. *)
Arity(f) ==
  CASE f.of = "global" -> 1
    [] f.of = "Object" ->
         (IF f.f = <<"d","e","f","i","n","e","P","r","o","p","e","r","t","y">> THEN 3
          ELSE IF f.f \in
            {<<"a","s","s","i","g","n">>, <<"c","r","e","a","t","e">>,
             <<"d","e","f","i","n","e","P","r","o","p","e","r","t","i","e","s">>,
             <<"g","e","t","O","w","n","P","r","o","p","e","r","t","y","D","e","s","c","r","i","p","t","o","r">>,
             <<"h","a","s","O","w","n">>, <<"i","s">>,
             <<"s","e","t","P","r","o","t","o","t","y","p","e","O","f">>}
          THEN 2 ELSE 1)
    [] f.of \in {"Array", "String", "Number"} ->
         (IF f.f = <<"o","f">> THEN 0 ELSE IF f.f = <<"p","a","r","s","e","I","n","t">> THEN 2 ELSE 1)
    [] f.of = "number" ->
         (IF f.f \in {<<"v","a","l","u","e","O","f">>, <<"t","o","L","o","c","a","l","e","S","t","r","i","n","g">>} THEN 0 ELSE 1)
    [] OTHER ->
         (IF f.f \in
            {<<"t","o","L","o","c","a","l","e","S","t","r","i","n","g">>,
             <<"t","o","S","t","r","i","n","g">>,
             <<"v","a","l","u","e","O","f">>, <<"p","o","p">>,
             <<"r","e","v","e","r","s","e">>, <<"s","h","i","f","t">>,
             <<"k","e","y","s">>, <<"e","n","t","r","i","e","s">>,
             <<"v","a","l","u","e","s">>, <<"f","l","a","t">>,
             <<"t","o","R","e","v","e","r","s","e","d">>, <<"b","i","g">>,
             <<"b","l","i","n","k">>, <<"b","o","l","d">>,
             <<"f","i","x","e","d">>, <<"i","t","a","l","i","c","s">>,
             <<"s","m","a","l","l">>, <<"s","t","r","i","k","e">>,
             <<"s","u","b">>, <<"s","u","p">>,
             <<"i","s","W","e","l","l","F","o","r","m","e","d">>,
             <<"t","o","W","e","l","l","F","o","r","m","e","d">>,
             <<"n","o","r","m","a","l","i","z","e">>, <<"t","r","i","m">>,
             <<"t","r","i","m","S","t","a","r","t">>,
             <<"t","r","i","m","L","e","f","t">>,
             <<"t","r","i","m","E","n","d">>,
             <<"t","r","i","m","R","i","g","h","t">>,
             <<"t","o","L","o","c","a","l","e","L","o","w","e","r","C","a","s","e">>,
             <<"t","o","L","o","c","a","l","e","U","p","p","e","r","C","a","s","e">>,
             <<"t","o","L","o","w","e","r","C","a","s","e">>,
             <<"t","o","U","p","p","e","r","C","a","s","e">>}
          THEN 0
          ELSE IF f.f \in
            {<<"_","_","d","e","f","i","n","e","G","e","t","t","e","r","_","_">>,
             <<"_","_","d","e","f","i","n","e","S","e","t","t","e","r","_","_">>,
             <<"c","o","p","y","W","i","t","h","i","n">>,
             <<"s","l","i","c","e">>, <<"s","p","l","i","c","e">>,
             <<"t","o","S","p","l","i","c","e","d">>, <<"w","i","t","h">>,
             <<"r","e","p","l","a","c","e">>,
             <<"r","e","p","l","a","c","e","A","l","l">>,
             <<"s","p","l","i","t">>, <<"s","u","b","s","t","r">>,
             <<"s","u","b","s","t","r","i","n","g">>,
             <<"a","p","p","l","y">>}
          THEN 2 ELSE 1)

(* f.name: trimLeft and trimRight are the functions trimStart and trimEnd. *)
NameOf(f) ==
  CASE f.f = <<"t","r","i","m","L","e","f","t">> -> <<"t","r","i","m","S","t","a","r","t">>
    [] f.f = <<"t","r","i","m","R","i","g","h","t">> -> <<"t","r","i","m","E","n","d">>
    [] OTHER -> f.f

(* ToBoolean *)
Truthy(v) ==
  CASE v.t \in {"undefined", "null"} -> FALSE
    [] v.t = "string" -> v.s # <<>>
    [] v.t = "number" -> v.n # 0
    [] v.t = "boolean" -> v.b
    [] v.t = "constant" -> v.c # <<"N","a","N">>
    [] OTHER -> TRUE

(* a || b *)
Or(a, b) == IF Truthy(a) THEN a ELSE b

(* Array.isArray(v): Array.prototype is an array too. *)
IsArray(v) == v.t = "array" \/ (v.t = "proto" /\ v.of = "array")

Digit(d) == <<"0","1","2","3","4","5","6","7","8","9">>[d + 1]

(* 2^32 - 2, the greatest array index. *)
MaxIndex == <<"4","2","9","4","9","6","7","2","9","4">>

(* The digit a character is. *)
DigitValue(c) == CHOOSE d \in 0..9 : Digit(d) = c

(* String(n) for an integer n. *)
RECURSIVE Decimal(_)
Decimal(n) ==
  IF n < 0 THEN <<"-">> \o Decimal(0 - n)
  ELSE IF n < 10 THEN <<Digit(n)>>
  ELSE Decimal(n \div 10) \o <<Digit(n % 10)>>

(* The elements of an array, or the characters of a string, as values. *)
Elements(o) ==
  CASE o.t = "array" -> o.a
    [] o.t = "string" -> [i \in 1..Len(o.s) |-> JStr(<<o.s[i]>>)]
    [] OTHER -> <<>>

(* The positions of Elements(o) that the key k indexes: k is "0", "1", ... *)
IndexAt(o, k) == {i \in 1..Len(Elements(o)) : Decimal(i - 1) = k}

(* The kind whose prototype the value o has. *)
KindOf(o) ==
  IF o.t \in {"array", "string", "number", "boolean", "function"} THEN o.t
  ELSE IF o.t = "constant" THEN "number"
  ELSE "object"

(* The own string keys of the prototype of a kind. *)
PrototypeKeys(kind) ==
  CASE kind = "array" -> ArrayPrototype
    [] kind = "string" -> StringPrototype
    [] kind = "number" ->
        {<<"c","o","n","s","t","r","u","c","t","o","r">>,
         <<"t","o","E","x","p","o","n","e","n","t","i","a","l">>, <<"t","o","F","i","x","e","d">>,
         <<"t","o","P","r","e","c","i","s","i","o","n">>, <<"t","o","S","t","r","i","n","g">>,
         <<"v","a","l","u","e","O","f">>, <<"t","o","L","o","c","a","l","e","S","t","r","i","n","g">>}
    [] kind = "boolean" ->
        {<<"c","o","n","s","t","r","u","c","t","o","r">>, <<"t","o","S","t","r","i","n","g">>,
         <<"v","a","l","u","e","O","f">>}
    [] kind = "function" -> FunctionPrototype
    [] OTHER -> ObjectPrototype

(* The constructor of a kind, and the kind a constructor makes. *)
ConstructorOf(kind) ==
  JFun("global",
       CASE kind = "array" -> <<"A","r","r","a","y">>
         [] kind = "string" -> <<"S","t","r","i","n","g">>
         [] kind = "number" -> <<"N","u","m","b","e","r">>
         [] kind = "boolean" -> <<"B","o","o","l","e","a","n">>
         [] kind = "function" -> <<"F","u","n","c","t","i","o","n">>
         [] OTHER -> <<"O","b","j","e","c","t">>)

KindMade(f) ==
  CHOOSE kind \in {"object", "array", "string", "number", "boolean", "function"} :
    ConstructorOf(kind) = f

(* The functions a constructor holds as own properties. *)
Statics(n) ==
  CASE n = <<"O","b","j","e","c","t">> ->
      {<<"a","s","s","i","g","n">>,
       <<"g","e","t","O","w","n","P","r","o","p","e","r","t","y","D","e","s","c","r","i","p","t","o","r">>,
       <<"g","e","t","O","w","n","P","r","o","p","e","r","t","y","D","e","s","c","r","i","p","t","o","r","s">>,
       <<"g","e","t","O","w","n","P","r","o","p","e","r","t","y","N","a","m","e","s">>,
       <<"g","e","t","O","w","n","P","r","o","p","e","r","t","y","S","y","m","b","o","l","s">>,
       <<"h","a","s","O","w","n">>, <<"i","s">>,
       <<"p","r","e","v","e","n","t","E","x","t","e","n","s","i","o","n","s">>, <<"s","e","a","l">>,
       <<"c","r","e","a","t","e">>,
       <<"d","e","f","i","n","e","P","r","o","p","e","r","t","i","e","s">>,
       <<"d","e","f","i","n","e","P","r","o","p","e","r","t","y">>, <<"f","r","e","e","z","e">>,
       <<"g","e","t","P","r","o","t","o","t","y","p","e","O","f">>,
       <<"s","e","t","P","r","o","t","o","t","y","p","e","O","f">>,
       <<"i","s","E","x","t","e","n","s","i","b","l","e">>, <<"i","s","F","r","o","z","e","n">>,
       <<"i","s","S","e","a","l","e","d">>, <<"k","e","y","s">>, <<"e","n","t","r","i","e","s">>,
       <<"f","r","o","m","E","n","t","r","i","e","s">>, <<"v","a","l","u","e","s">>}
    [] n = <<"A","r","r","a","y">> ->
      {<<"i","s","A","r","r","a","y">>, <<"f","r","o","m">>, <<"o","f">>}
    [] n = <<"S","t","r","i","n","g">> ->
      {<<"f","r","o","m","C","h","a","r","C","o","d","e">>,
       <<"f","r","o","m","C","o","d","e","P","o","i","n","t">>, <<"r","a","w">>}
    [] n = <<"N","u","m","b","e","r">> ->
      {<<"i","s","F","i","n","i","t","e">>, <<"i","s","I","n","t","e","g","e","r">>,
       <<"i","s","N","a","N">>, <<"i","s","S","a","f","e","I","n","t","e","g","e","r">>,
       <<"p","a","r","s","e","F","l","o","a","t">>, <<"p","a","r","s","e","I","n","t">>}
    [] OTHER -> {}

(* The numbers Number holds as own properties: the key and String() of    *)
(* each.  None of them is an integer the model counts with.                 *)
NumberConstants ==
  <<<<<<"E","P","S","I","L","O","N">>,
      <<"2",".","2","2","0","4","4","6","0","4","9","2","5","0","3","1","3","e","-","1","6">>>>,
    <<<<"M","A","X","_","S","A","F","E","_","I","N","T","E","G","E","R">>,
      <<"9","0","0","7","1","9","9","2","5","4","7","4","0","9","9","1">>>>,
    <<<<"M","A","X","_","V","A","L","U","E">>,
      <<"1",".","7","9","7","6","9","3","1","3","4","8","6","2","3","1","5","7","e","+","3","0","8">>>>,
    <<<<"M","I","N","_","S","A","F","E","_","I","N","T","E","G","E","R">>,
      <<"-","9","0","0","7","1","9","9","2","5","4","7","4","0","9","9","1">>>>,
    <<<<"M","I","N","_","V","A","L","U","E">>,
      <<"5","e","-","3","2","4">>>>,
    <<<<"N","a","N">>,
      <<"N","a","N">>>>,
    <<<<"N","E","G","A","T","I","V","E","_","I","N","F","I","N","I","T","Y">>,
      <<"-","I","n","f","i","n","i","t","y">>>>,
    <<<<"P","O","S","I","T","I","V","E","_","I","N","F","I","N","I","T","Y">>,
      <<"I","n","f","i","n","i","t","y">>>>>>

\* A number that is one of these, by its string.
JConst(c) == [t |-> "constant", c |-> c]

(* The keys of the constants the constructor named n holds. *)
ConstantKeys(n) ==
  IF n = <<"N","u","m","b","e","r">>
  THEN {NumberConstants[i][1] : i \in 1..Len(NumberConstants)}
  ELSE {}

(* The owner of the functions the constructor named n holds. *)
Holder(n) ==
  CASE n = <<"O","b","j","e","c","t">> -> "Object"
    [] n = <<"A","r","r","a","y">> -> "Array"
    [] n = <<"S","t","r","i","n","g">> -> "String"
    [] OTHER -> "Number"

(* The own string keys of the built-in function f. *)
FunctionKeys(f) ==
  {K_length, K_name} \cup
    (IF f.of = "global"
     THEN {K_prototype} \cup Statics(f.f) \cup ConstantKeys(f.f)
     ELSE {})

(* Object.hasOwn(o, k), for o not null or undefined. *)
HasOwn(o, k) ==
  CASE o.t = "object" -> \E i \in 1..Len(o.o) : o.o[i][1] = k
    [] o.t \in {"array", "string"} -> IndexAt(o, k) # {} \/ k = K_length
    [] o.t = "function" -> k \in FunctionKeys(o)
    [] o.t = "proto" -> k \in PrototypeKeys(o.of)
    [] OTHER -> FALSE

(* The value of the property k a prototype or a built-in function holds:   *)
(* but for the ones named, a function.                                      *)
BuiltIn(o, k) ==
  CASE o.t = "proto" /\ k = K_proto ->
         (IF o.of = "object" THEN Null ELSE Proto("object"))
    [] o.t = "proto" /\ k = K_constructor -> ConstructorOf(o.of)
    [] o.t = "proto" /\ k = K_length -> JNum(0)
    [] o.t = "proto" /\ k = K_name -> EmptyStr
    [] o.t = "proto" -> JFun(o.of, k)
    [] k = K_length -> JNum(Arity(o))
    [] k = K_name -> JStr(NameOf(o))
    [] k = K_prototype -> Proto(KindMade(o))
    [] k \in ConstantKeys(o.f) ->
         JConst(NumberConstants[CHOOSE i \in 1..Len(NumberConstants) :
                                  NumberConstants[i][1] = k][2])
    [] OTHER -> JFun(Holder(o.f), k)

(* o[k] for an own property k of o. *)
OwnValue(o, k) ==
  CASE o.t = "object" -> o.o[CHOOSE i \in 1..Len(o.o) : o.o[i][1] = k][2]
    [] o.t \in {"array", "string"} ->
         (IF k = K_length THEN JNum(Len(Elements(o)))
          ELSE Elements(o)[CHOOSE i \in IndexAt(o, k) : TRUE])
    [] OTHER -> BuiltIn(o, k)

(* The prototypes o inherits from, nearest first. *)
Chain(o) ==
  IF o.t = "proto" THEN (IF o.of = "object" THEN <<>> ELSE <<"object">>)
  ELSE IF KindOf(o) = "object" THEN <<"object">>
  ELSE <<KindOf(o), "object">>

(* The property k as o inherits it from the prototype of a kind; the        *)
(* accessor __proto__ answers the prototype of o itself.                    *)
Inherited(o, kind, k) ==
  IF k = K_proto
  THEN (IF o.t = "proto" THEN Proto("object") ELSE Proto(KindOf(o)))
  ELSE BuiltIn(Proto(kind), k)

(* Whether reading o[k] throws a TypeError: the accessors arguments and     *)
(* caller of Function.prototype throw for every function.                   *)
GetThrows(o, k) ==
  /\ o.t = "function" \/ (o.t = "proto" /\ o.of = "function")
  /\ k \in {<<"a","r","g","u","m","e","n","t","s">>, <<"c","a","l","l","e","r">>}

(* o[k] for a key k that is a string and o not null or undefined, where     *)
(* ~GetThrows(o, k): an own property, else the first one o inherits along   *)
(* its prototype chain, else undefined.                                     *)
Get(o, k) ==
  IF HasOwn(o, k) THEN OwnValue(o, k)
  ELSE LET at == {i \in 1..Len(Chain(o)) : k \in PrototypeKeys(Chain(o)[i])}
       IN  IF at = {} THEN Undefined
           ELSE Inherited(o, Chain(o)[CHOOSE i \in at : \A j \in at : i <= j], k)

(* The key k is an array index: the numeral, without needless zeros, of an *)
(* integer from 0 to 2^32 - 2.                                              *)
IsIndex(k) ==
  /\ k # <<>>
  /\ \A i \in 1..Len(k) : k[i] \in {Digit(d) : d \in 0..9}
  /\ Len(k) = 1 \/ k[1] # "0"
  /\ \/ Len(k) < 10
     \/ /\ Len(k) = 10
        /\ \A i \in 1..10 :
             (\A j \in 1..(i - 1) : k[j] = MaxIndex[j]) =>
               DigitValue(k[i]) <= DigitValue(MaxIndex[i])

(* The index a is below the index b. *)
IndexBelow(a, b) ==
  \/ Len(a) < Len(b)
  \/ /\ Len(a) = Len(b)
     /\ \E i \in 1..Len(a) :
          /\ \A j \in 1..(i - 1) : a[j] = b[j]
          /\ DigitValue(a[i]) < DigitValue(b[i])

(* Object.keys(o): of an object, the array indices among its keys in       *)
(* ascending order, then its other keys in the order the JSON text named    *)
(* them; of an array or a string, its indices.                              *)
Keys(o) ==
  IF o.t = "object"
  THEN LET names == [i \in 1..Len(o.o) |-> o.o[i][1]]
           indices == {names[i] : i \in {j \in 1..Len(names) : IsIndex(names[j])}}
       IN  [n \in 1..Cardinality(indices) |->
              CHOOSE k \in indices :
                Cardinality({a \in indices : IndexBelow(a, k)}) = n - 1]
             \o SelectSeq(names, LAMBDA k : ~IsIndex(k))
  ELSE [i \in 1..Len(Elements(o)) |-> Decimal(i - 1)]

----------------------------------------------------------------------------
(* String helpers. *)

\* The characters String.prototype.trim removes and \s matches, among the
\* characters a string literal here can hold: space, the escapes, and
\* U+000B, U+00A0, U+1680 and U+FEFF written raw.  U+2000 to U+200A, U+2028,
\* U+2029, U+202F, U+205F and U+3000 are no characters of a string here.
WhiteSpace == {" ", "\n", "\t", "\r", "\f", "", " ", " ", "﻿"}

RECURSIVE trimStart(_)
trimStart(s) ==
  IF s # <<>> /\ Head(s) \in WhiteSpace THEN trimStart(Tail(s)) ELSE s

RECURSIVE trimEnd(_)
trimEnd(s) ==
  IF s # <<>> /\ s[Len(s)] \in WhiteSpace
  THEN trimEnd(SubSeq(s, 1, Len(s) - 1)) ELSE s

trim(s) == trimEnd(trimStart(s))

(* s.slice(0, n) *)
slice0(s, n) == SubSeq(s, 1, IF Len(s) < n THEN Len(s) ELSE n)

RECURSIVE join(_, _)
join(parts, sep) ==
  IF parts = <<>> THEN <<>>
  ELSE IF Len(parts) = 1 THEN parts[1]
  ELSE parts[1] \o sep \o join(Tail(parts), sep)

(* Whether String(v) returns: an object whose toString and valueOf yield no  *)
(* primitive makes it throw a TypeError.  An own toString or valueOf of a    *)
(* parsed JSON object is never callable; the inherited valueOf returns the   *)
(* object itself.                                                            *)
RECURSIVE CanString(_)
CanString(v) ==
  CASE v.t = "object" -> Get(v, K_toString).t = "function"
    [] v.t = "array" -> \A i \in 1..Len(v.a) : CanString(v.a[i])
    [] OTHER -> TRUE

(* String(p) for the prototype object of a kind. *)
StringOfPrototype(kind) ==
  CASE kind = "object" -> S_objectObject
    [] kind = "number" -> <<"0">>
    [] kind = "boolean" -> S_false
    [] kind = "function" -> S_function \o S_native
    [] OTHER -> <<>>

(* String(v), where CanString(v). *)
RECURSIVE String(_)
String(v) ==
  CASE v.t = "string" -> v.s
    [] v.t = "number" -> Decimal(v.n)
    [] v.t = "boolean" -> (IF v.b THEN S_true ELSE S_false)
    [] v.t = "null" -> S_null
    [] v.t = "undefined" -> S_undefined
    [] v.t = "function" -> S_function \o NameOf(v) \o S_native
    [] v.t = "array" ->
         join([i \in 1..Len(v.a) |->
                 IF v.a[i].t \in {"null", "undefined"} THEN <<>>
                 ELSE String(v.a[i])], S_comma)
    [] v.t = "proto" -> StringOfPrototype(v.of)
    [] v.t = "constant" -> v.c
    [] OTHER -> S_objectObject

----------------------------------------------------------------------------
(* The helpers of server.js. *)

(* /^[^\s@]+@[^\s@]+\.[^\s@]+$/.test(s) *)
EmailRegex(s) ==
  \E i \in 1..Len(s) :
    /\ s[i] = "@"
    /\ i > 1
    /\ \A j \in 1..Len(s) : j # i => s[j] \notin WhiteSpace \cup {"@"}
    /\ \E j \in (i + 2)..(Len(s) - 1) : s[j] = "."

(* Whether isEmail(x) returns rather than throws. *)
isEmailReturns(x) == CanString(Or(x, EmptyStr))

isEmail(x) == EmailRegex(trim(String(Or(x, EmptyStr))))

(* v == null || (typeof v === "string" && v.trim() === "") *)
isEmpty(v) ==
  \/ v.t \in {"undefined", "null"}
  \/ (v.t = "string" /\ trim(v.s) = <<>>)

escChar(c) ==
  CASE c = "&" -> <<"&","a","m","p",";">>
    [] c = "<" -> <<"&","l","t",";">>
    [] c = ">" -> <<"&","g","t",";">>
    [] c = "\"" -> <<"&","q","u","o","t",";">>
    [] c = "'" -> <<"&","#","3","9",";">>
    [] OTHER -> <<c>>

RECURSIVE escString(_)
escString(s) == IF s = <<>> THEN <<>> ELSE escChar(Head(s)) \o escString(Tail(s))

(* esc(s = ""), where CanString(s). *)
esc(s) == escString(String(IF s.t = "undefined" THEN EmptyStr ELSE s))

\* Every character of s is one "." matches: none is a line terminator
\* (U+2028 and U+2029 are no characters of a string here).
NoNewline(s) == \A i \in 1..Len(s) : s[i] \notin {"\n", "\r"}

\* The positions p of "<" at which the regular expression of parseFrom,
\* ^(.*)<(.+@.+)>$, matches s.
FromMatches(s) ==
  {p \in 1..Len(s) :
     /\ s[p] = "<"
     /\ s[Len(s)] = ">"
     /\ NoNewline(s)
     /\ \E q \in (p + 2)..(Len(s) - 2) : s[q] = "@"}

Max(S) == CHOOSE x \in S : \A y \in S : y <= x

(* .replace(/(^"|"$)/g, "") *)
stripQuotes(s) ==
  LET a == IF s # <<>> /\ Head(s) = "\"" THEN Tail(s) ELSE s
  IN  IF a # <<>> /\ a[Len(a)] = "\"" THEN SubSeq(a, 1, Len(a) - 1) ELSE a

\* What an expression of the handler comes to: a value, or a TypeError
\* thrown inside the try block, with the engine's message.
Value(v) == [k |-> "value", v |-> v]
Throw(message) == [k |-> "throw", error |-> [message |-> message]]

(* parseFrom(fromStr): a truthy fromStr that is no string has no match. *)
parseFrom(fromStr) ==
  IF ~Truthy(fromStr)
  THEN Value([name |-> JStr(S_Kontakt), email |-> JStr(S_noreply)])
  ELSE IF fromStr.t # "string" THEN Throw(T_match)
  ELSE LET s == fromStr.s
           m == FromMatches(s)
       IN  IF m = {} THEN Value([name |-> fromStr, email |-> fromStr])
           ELSE LET p == Max(m)
                IN  Value([name |-> JStr(stripQuotes(trim(SubSeq(s, 1, p - 1)))),
                           email |-> JStr(trim(SubSeq(s, p + 1, Len(s) - 1)))])

----------------------------------------------------------------------------
(* Module load: the site registry. *)

Server == "server.js"
Smtp == "part_001"
Snippet == "part_000"

\* process.env.SITES_JSON: unset (or empty), a text JSON.parse rejects, or a
\* JSON text, given by the value it parses to.
EnvUnset == [k |-> "unset"]
EnvMalformed == [k |-> "malformed"]
EnvJson(v) == [k |-> "json", v |-> v]

(* JSON.parse(process.env.SITES_JSON || "{}"): the value, or threw. *)
parseSites(e) ==
  CASE e.k = "unset" -> [threw |-> FALSE, v |-> JObj(<<>>)]
    [] e.k = "malformed" -> [threw |-> TRUE, v |-> Undefined]
    [] OTHER -> [threw |-> FALSE, v |-> e.v]

(* server.js: let SITES = {}; try { SITES = JSON.parse(...) } catch { SITES = {} } *)
loadSites(e) ==
  LET p == parseSites(e)
  IN  [up |-> TRUE, sites |-> IF p.threw THEN JObj(<<>>) ELSE p.v]

(* The other variants: const SITES = JSON.parse(...), outside any try;   *)
(* a throw at module load ends the process.                                *)
loadSitesUnguarded(e) ==
  LET p == parseSites(e)
  IN  [up |-> ~p.threw, sites |-> p.v]

load(b, e) == IF b = Server THEN loadSites(e) ELSE loadSitesUnguarded(e)

----------------------------------------------------------------------------
(* POST /v1/contact, up to the await of the mail call. *)

Respond(status, json) == [k |-> "respond", status |-> status, json |-> json]

ErrorJson(msg) == [error |-> msg]
OkJson == [ok |-> TRUE]

IsNullish(v) == v.t \in {"undefined", "null"}

(* Array.isArray(a) && !a.includes(x) *)
arrayExcludes(a, x) ==
  IsArray(a) /\ \A i \in 1..Len(Elements(a)) : Elements(a)[i] # x

(* The origin check, had it also asked for a non-empty list:               *)
(* ... && site.allowedOrigins.length > 0 && ...                             *)
originRefusedNonEmpty(site, origin) ==
  /\ Truthy(origin)
  /\ arrayExcludes(Get(site, K_allowedOrigins), origin)
  /\ Elements(Get(site, K_allowedOrigins)) # <<>>

(* The origin check: whether the request is refused with 403. *)
originRefused(site, origin) ==
  /\ Truthy(origin)
  /\ arrayExcludes(Get(site, K_allowedOrigins), origin)

(* server.js: site.requiredFields || ["email"] *)
requiredOf(site) == Or(Get(site, K_requiredFields), JArr(<<JStr(K_email)>>))

(* The other variants: site.requiredFields || ["email", "message"] *)
requiredOfSmtp(site) ==
  Or(Get(site, K_requiredFields), JArr(<<JStr(K_email), JStr(K_message)>>))

(* The fields a for..of loop over required visits. *)
iterate(required) ==
  CASE required.t = "array" -> required.a
    [] required.t = "string" -> [i \in 1..Len(required.s) |-> JStr(<<required.s[i]>>)]
    [] OTHER -> <<>>

Iterable(required) == required.t \in {"array", "string"}

Min(S) == CHOOSE x \in S : \A y \in S : x <= y

(* The loop over the required fields, from field i on: the key body[f]     *)
(* throws for an f String() cannot convert; the first f that isEmpty holds *)
(* of is answered with 400; else the loop ends.                            *)
RECURSIVE checkRequired(_, _, _)
checkRequired(body, fields, i) ==
  IF i > Len(fields) THEN [k |-> "pass"]
  ELSE IF ~CanString(fields[i]) THEN Throw(T_primitive)
  ELSE IF isEmpty(Get(body, String(fields[i])))
  THEN Respond(400, ErrorJson(E_missing \o String(fields[i])))
  ELSE checkRequired(body, fields, i + 1)

(* Object.keys(body).filter(k => !IGNORE.has(k) && !isEmpty(body[k])) *)
contentKeys(body) ==
  SelectSeq(Keys(body), LAMBDA k : k \notin IGNORE /\ ~isEmpty(Get(body, k)))

DecimalDigits == {"0", "1", "2", "3", "4", "5", "6", "7", "8", "9"}

HexDigits ==
  DecimalDigits \cup {"a", "b", "c", "d", "e", "f", "A", "B", "C", "D", "E", "F"}

(* s is one or more characters of the set D. *)
Numeral(s, D) == s # <<>> /\ \A i \in 1..Len(s) : s[i] \in D

(* s has a digit other than 0. *)
NonZero(s) == \E i \in 1..Len(s) : s[i] \in HexDigits \ {"0"}

(* s is an exponent part: e or E, an optional sign, digits. *)
ExponentPart(s) ==
  /\ s # <<>>
  /\ Head(s) \in {"e", "E"}
  /\ LET x == Tail(s)
     IN  Numeral(IF x # <<>> /\ Head(x) \in {"+", "-"} THEN Tail(x) ELSE x,
                 DecimalDigits)

(* The number a numeral of at most 6 digits is; a longer one counts as      *)
(* 1000000, which no string short of that many characters tells apart.      *)
RECURSIVE NaturalOf(_)
NaturalOf(s) ==
  IF s = <<>> THEN 0
  ELSE IF Head(s) = "0" /\ Len(s) > 1 THEN NaturalOf(Tail(s))
  ELSE IF Len(s) > 6 THEN 1000000
  ELSE NaturalOf(SubSeq(s, 1, Len(s) - 1)) * 10 + DigitValue(s[Len(s)])

(* The number an exponent part is; 0 for none. *)
ExponentOf(s) ==
  IF s = <<>> THEN 0
  ELSE IF s[2] = "-" THEN 0 - NaturalOf(SubSeq(s, 3, Len(s)))
  ELSE IF s[2] = "+" THEN NaturalOf(SubSeq(s, 3, Len(s)))
  ELSE NaturalOf(Tail(s))

(* The significant digits of 2^-1075 = 2.47...e-324, half the least        *)
(* Number above 0: a decimal literal of that value or less is the Number 0. *)
HalfLeast ==
    <<"2","4","7","0","3","2","8","2","2","9","2","0","6","2","3","2","7",
      "2","0","8","8","2","8","4","3","9","6","4","3","4","1","1","0","6",
      "8","6","1","8","2","5","2","9","9","0","1","3","0","7","1","6","2",
      "3","8","2","2","1","2","7","9","2","8","4","1","2","5","0","3","3",
      "7","7","5","3","6","3","5","1","0","4","3","7","5","9","3","2","6",
      "4","9","9","1","8","1","8","0","8","1","7","9","9","6","1","8","9",
      "8","9","8","2","8","2","3","4","7","7","2","2","8","5","8","8","6",
      "5","4","6","3","3","2","8","3","5","5","1","7","7","9","6","9","8",
      "9","8","1","9","9","3","8","7","3","9","8","0","0","5","3","9","0",
      "9","3","9","0","6","3","1","5","0","3","5","6","5","9","5","1","5",
      "5","7","0","2","2","6","3","9","2","2","9","0","8","5","8","3","9",
      "2","4","4","9","1","0","5","1","8","4","4","3","5","9","3","1","8",
      "0","2","8","4","9","9","3","6","5","3","6","1","5","2","5","0","0",
      "3","1","9","3","7","0","4","5","7","6","7","8","2","4","9","2","1",
      "9","3","6","5","6","2","3","6","6","9","8","6","3","6","5","8","4",
      "8","0","7","5","7","0","0","1","5","8","5","7","6","9","2","6","9",
      "9","0","3","7","0","6","3","1","1","9","2","8","2","7","9","5","5",
      "8","5","5","1","3","3","2","9","2","7","8","3","4","3","3","8","4",
      "0","9","3","5","1","9","7","8","0","1","5","5","3","1","2","4","6",
      "5","9","7","2","6","3","5","7","9","5","7","4","6","2","2","7","6",
      "6","4","6","5","2","7","2","8","2","7","2","2","0","0","5","6","3",
      "7","4","0","0","6","4","8","5","4","9","9","9","7","7","0","9","6",
      "5","9","9","4","7","0","4","5","4","0","2","0","8","2","8","1","6",
      "6","2","2","6","2","3","7","8","5","7","3","9","3","4","5","0","7",
      "3","6","3","3","9","0","0","7","9","6","7","7","6","1","9","3","0",
      "5","7","7","5","0","6","7","4","0","1","7","6","3","2","4","6","7",
      "3","6","0","0","9","6","8","9","5","1","3","4","0","5","3","5","5",
      "3","7","4","5","8","5","1","6","6","6","1","1","3","4","2","2","3",
      "7","6","6","6","7","8","6","0","4","1","6","2","1","5","9","6","8",
      "0","4","6","1","9","1","4","4","6","7","2","9","1","8","4","0","3",
      "0","0","5","3","0","0","5","7","5","3","0","8","4","9","0","4","8",
      "7","6","5","3","9","1","7","1","1","3","8","6","5","9","1","6","4",
      "6","2","3","9","5","2","4","9","1","2","6","2","3","6","5","3","8",
      "8","1","8","7","9","6","3","6","2","3","9","3","7","3","2","8","0",
      "4","2","3","8","9","1","0","1","8","6","7","2","3","4","8","4","9",
      "7","6","6","8","2","3","5","0","8","9","8","6","3","3","8","8","5",
      "8","7","9","2","5","6","2","8","3","0","2","7","5","5","9","9","5",
      "6","5","7","5","2","4","4","5","5","5","0","7","2","5","5","1","8",
      "9","3","1","3","6","9","0","8","3","6","2","5","4","7","7","9","1",
      "8","6","9","4","8","6","6","7","9","9","4","9","6","8","3","2","4",
      "0","4","9","7","0","5","8","2","1","0","2","8","5","1","3","1","8",
      "5","4","5","1","3","9","6","2","1","3","8","3","7","7","2","2","8",
      "2","6","1","4","5","4","3","7","6","9","3","4","1","2","5","3","2",
      "0","9","8","5","9","1","3","2","7","6","6","7","2","3","6","3","2",
      "8","1","2","5">>

(* The digits d without the zeros they end in. *)
RECURSIVE Significant(_)
Significant(d) ==
  IF d # <<>> /\ d[Len(d)] = "0" THEN Significant(SubSeq(d, 1, Len(d) - 1)) ELSE d

(* The digits d, read as d[1].d[2]d[3]..., are a number above c read so. *)
Above(d, c) ==
  \E i \in 1..Len(d) :
    /\ \A j \in 1..(i - 1) : j <= Len(c) /\ d[j] = c[j]
    /\ i > Len(c) \/ DigitValue(d[i]) > DigitValue(c[i])

(* The digits d with n of them before the point, times 10 to the e, are a   *)
(* Number above 0: the first digit other than 0 stands for at least 1e-323, *)
(* or for 1e-324 with the digits from it on above those of 2^-1075.         *)
RoundsAboveZero(d, n, e) ==
  LET first == {i \in 1..Len(d) : d[i] # "0"}
  IN  /\ first # {}
      /\ LET z == Min(first)
             place == n - z + e
         IN  \/ place > -324
             \/ place = -324 /\ Above(Significant(SubSeq(d, z, Len(d))), HalfLeast)

(* s is an unsigned decimal literal of a Number above 0: digits with an     *)
(* optional fraction, or a fraction alone, then an optional exponent part.  *)
PositiveDecimal(s) ==
  \E i \in 0..Len(s) : \E j \in i..Len(s) :
    LET whole == SubSeq(s, 1, i)
        point == SubSeq(s, i + 1, j)
        rest == SubSeq(s, j + 1, Len(s))
    IN  /\ whole = <<>> \/ Numeral(whole, DecimalDigits)
        /\ \/ point = <<>> /\ whole # <<>>
           \/ point = <<".">> /\ whole # <<>>
           \/ Len(point) > 1 /\ Head(point) = "." /\ Numeral(Tail(point), DecimalDigits)
        /\ rest = <<>> \/ ExponentPart(rest)
        /\ RoundsAboveZero(whole \o (IF point = <<>> THEN <<>> ELSE Tail(point)),
                           Len(whole), ExponentOf(rest))

(* s is 0x, 0o or 0b and digits of that base, of a value above 0. *)
PositiveNonDecimal(s) ==
  /\ Len(s) > 2
  /\ s[1] = "0"
  /\ LET d == SubSeq(s, 3, Len(s))
     IN  /\ \/ s[2] \in {"x", "X"} /\ Numeral(d, HexDigits)
            \/ s[2] \in {"o", "O"} /\ Numeral(d, {"0", "1", "2", "3", "4", "5", "6", "7"})
            \/ s[2] \in {"b", "B"} /\ Numeral(d, {"0", "1"})
         /\ NonZero(d)

(* Number(s) > 0 for a string s. *)
PositiveNumeric(s) ==
  LET t == trim(s)
      u == IF t # <<>> /\ Head(t) = "+" THEN Tail(t) ELSE t
  IN  u = S_Infinity \/ PositiveDecimal(u) \/ (u = t /\ PositiveNonDecimal(t))

(* v > 0, where CanString(v): an object or an array is compared by its     *)
(* string.                                                                  *)
GreaterThanZero(v) ==
  CASE v.t = "number" -> v.n > 0
    [] v.t = "boolean" -> v.b
    [] v.t \in {"undefined", "null"} -> FALSE
    [] OTHER -> PositiveNumeric(String(v))

(* order.indexOf(k) for an array (the first element that is the string k)  *)
(* or a string (the first place k occurs in it): from 0, -1 for none.       *)
indexOf(order, k) ==
  LET at == IF order.t = "array"
            THEN {i \in 1..Len(order.a) : order.a[i] = JStr(k)}
            ELSE {i \in 1..(Len(order.s) + 1) :
                    /\ i + Len(k) - 1 <= Len(order.s)
                    /\ SubSeq(order.s, i, i + Len(k) - 1) = k}
  IN  IF at = {} THEN -1 ELSE Min(at) - 1

(* order.indexOf(k) === -1 ? 9999 : order.indexOf(k) *)
rank(order, k) ==
  IF indexOf(order, k) = -1 THEN Unlisted ELSE indexOf(order, k)

(* The comparator handed to sort. *)
compare(order, a, b) == rank(order, a) - rank(order, b)

(* One step of a stable sort: x goes before the first element it is         *)
(* strictly less than.                                                      *)
RECURSIVE insert(_, _, _)
insert(order, sorted, x) ==
  IF sorted = <<>> THEN <<x>>
  ELSE IF compare(order, Head(sorted), x) > 0 THEN <<x>> \o sorted
  ELSE <<Head(sorted)>> \o insert(order, Tail(sorted), x)

(* [...keys].sort(comparator): Array.prototype.sort is stable. *)
RECURSIVE sort(_, _)
sort(order, keys) ==
  IF keys = <<>> THEN <<>>
  ELSE insert(order, sort(order, SubSeq(keys, 1, Len(keys) - 1)), keys[Len(keys)])

(* server.js: order.length > 0; the other variants: order.length *)
sorts(b, order) ==
  IF b = Server THEN GreaterThanZero(Get(order, K_length))
  ELSE Truthy(Get(order, K_length))

(* const ordered = order.length > 0 ? [...keys].sort(...) : keys            *)
(* The comparison throws for a length no primitive comes of; sort calls the *)
(* comparator once there are two keys, and it throws for an order that is   *)
(* no array and no string.                                                  *)
orderedKeys(b, order, keys) ==
  IF b = Server /\ ~CanString(Get(order, K_length)) THEN Throw(T_primitive)
  ELSE IF ~sorts(b, order) \/ Len(keys) < 2 THEN Value(keys)
  ELSE IF order.t \notin {"array", "string"} THEN Throw(T_indexOf)
  ELSE Value(sort(order, keys))

(* labels[k] || k *)
labelOf(labels, k) == Or(Get(labels, k), JStr(k))

(* One element of rows. *)
htmlRow(labels, body, k) ==
  S_rowOpen \o esc(labelOf(labels, k)) \o S_rowMid
    \o esc(JStr(String(Get(body, k)))) \o S_rowClose

(* One line of text. *)
textLine(labels, body, k) ==
  String(labelOf(labels, k)) \o S_colon \o String(Get(body, k))

(* Whether building the rows and the text throws for key k. *)
renderThrows(labels, body, k) ==
  ~CanString(labelOf(labels, k)) \/ ~CanString(Get(body, k))

(* `${site.subjectPrefix || "Kontakt"} Anfrage`.slice(0, 160) *)
subjectOfSmtp(site) ==
  LET prefix == Or(Get(site, K_subjectPrefix), JStr(S_Kontakt))
  IN  IF ~CanString(prefix) THEN Throw(T_primitive)
      ELSE Value(JStr(slice0(String(prefix) \o S_Anfrage, SubjectMax)))

(* server.js:                                                              *)
(* (site.subject || `${site.subjectPrefix || "Kontakt"} Anfrage`).slice(0, 160) *)
(* A string and an array have a slice; no other truthy subject has.         *)
subjectOf(site) ==
  LET subject == Get(site, K_subject)
  IN  IF ~Truthy(subject) THEN subjectOfSmtp(site)
      ELSE IF subject.t = "string" THEN Value(JStr(slice0(subject.s, SubjectMax)))
      ELSE IF subject.t = "array" THEN Value(JArr(slice0(subject.a, SubjectMax)))
      ELSE Throw(T_slice)

(* Array.isArray(site.to) ? site.to : [site.to] *)
recipientsOf(site) ==
  LET to == Get(site, K_to) IN IF IsArray(to) THEN Elements(to) ELSE <<to>>

(* server.js: the SendSmtpEmail handed to emailApi.sendTransacEmail. *)
sendSmtpEmail(site, body, sender, subject, rows, lines) ==
  LET recipients == recipientsOf(site)
      email == Get(body, K_email)
  IN  [sender |-> sender,
       to |-> [i \in 1..Len(recipients) |-> [email |-> recipients[i]]],
       replyTo |-> IF Truthy(email) THEN [email |-> email] ELSE Undefined,
       subject |-> subject,
       htmlContent |-> S_h2Open \o esc(subject) \o S_h2Close
                         \o join(rows, S_newline) \o S_htmlEnd,
       textContent |-> join(lines, S_newline)]

(* part_001: the mail handed to transporter.sendMail. *)
sendMailSmtp(site, body, subject, rows, lines) ==
  [from |-> Get(site, K_from),
   to |-> recipientsOf(site),
   replyTo |-> Get(body, K_email),
   subject |-> subject,
   html |-> S_h2OpenSmtp \o esc(subject) \o S_h2CloseSmtp
              \o join(rows, S_newline) \o S_htmlEndSmtp,
   text |-> join(lines, S_newline)]

(* part_000: the mail handed to transporter.sendMail. *)
sendMailSnippet(site, body, subject, rows) ==
  [from |-> Get(site, K_from),
   to |-> Get(site, K_to),
   replyTo |-> Get(body, K_email),
   subject |-> subject,
   html |-> S_h2Open \o esc(subject) \o S_h2Close
              \o join(rows, S_newline) \o S_htmlEnd]

(* The rendering: the handler's locals ordered and rows, and the message,   *)
(* or the first TypeError on the way: of the ordering, of a row, of the     *)
(* subject and its heading, of the sender.                                  *)
compose(b, site, body) ==
  LET labels == Or(Get(site, K_fieldLabels), JObj(<<>>))
      order == Or(Get(site, K_fieldOrder), JArr(<<>>))
      sorted == orderedKeys(b, order, contentKeys(body))
      ordered == sorted.v
      rows == [i \in 1..Len(ordered) |-> htmlRow(labels, body, ordered[i])]
      lines == [i \in 1..Len(ordered) |-> textLine(labels, body, ordered[i])]
      subject == IF b = Server THEN subjectOf(site) ELSE subjectOfSmtp(site)
      sender == parseFrom(Get(site, K_from))
  IN  IF sorted.k = "throw" THEN sorted
      ELSE IF \E i \in 1..Len(ordered) : renderThrows(labels, body, ordered[i])
      THEN Throw(T_primitive)
      ELSE IF subject.k = "throw" THEN subject
      ELSE IF ~CanString(subject.v) THEN Throw(T_primitive)
      ELSE IF b = Server /\ sender.k = "throw" THEN sender
      ELSE [k |-> "send",
            ordered |-> ordered,
            rows |-> rows,
            msg |-> CASE b = Server ->
                           sendSmtpEmail(site, body, sender.v, subject.v, rows, lines)
                      [] b = Smtp ->
                           sendMailSmtp(site, body, subject.v, rows, lines)
                      [] OTHER ->
                           sendMailSnippet(site, body, subject.v, rows)]

(* The checks on the required fields and the email, then the rendering. *)
validateFields(b, site, body) ==
  LET required == IF b = Server THEN requiredOf(site) ELSE requiredOfSmtp(site)
      checked == checkRequired(body, iterate(required), 1)
      email == Get(body, K_email)
  IN  IF ~Iterable(required)
      THEN Throw(IF b = Snippet THEN T_notIterableSnippet ELSE T_notIterable)
      ELSE IF checked.k # "pass" THEN checked
      ELSE IF ~isEmailReturns(email) THEN Throw(T_primitive)
      ELSE IF ~isEmail(email) THEN Respond(400, ErrorJson(E_invalidEmail))
      ELSE compose(b, site, body)

(* The message of the TypeError a read of null[key] throws, before the key  *)
(* is converted: the engine names the key when it is a string, a number or  *)
(* a boolean, names a plain object by its constructor when toString and     *)
(* constructor are the inherited ones, and names no other key.              *)
readNull(key) ==
  IF key.t \in {"string", "number", "boolean"}
  THEN T_readNull \o T_reading \o String(key) \o T_readEnd
  ELSE IF key.t = "object" /\ ~HasOwn(key, K_toString) /\ ~HasOwn(key, K_constructor)
  THEN T_readNull \o T_reading \o S_hashObject \o T_readEnd
  ELSE T_readNull

(* The handler from its entry to its first response, throw or await. *)
contactHandler(b, sites, reqBody, originHeader) ==
  LET body == Or(reqBody, JObj(<<>>))
      siteId == Get(body, K_siteId)
      origin == Or(originHeader, EmptyStr)
  IN  IF ~Truthy(siteId) THEN Respond(400, ErrorJson(E_unknownSite))
      ELSE IF IsNullish(sites) THEN Throw(readNull(siteId))
      ELSE IF ~CanString(siteId) THEN Throw(T_primitive)
      ELSE LET site == Get(sites, String(siteId))
           IN  IF ~Truthy(site) THEN Respond(400, ErrorJson(E_unknownSite))
               ELSE IF originRefused(site, origin)
               THEN Respond(403, ErrorJson(E_origin))
               ELSE validateFields(b, site, body)

(* server.js and part_001: the catch block's response. *)
InternalError == [status |-> 500, json |-> ErrorJson(E_internal)]

(* part_000: res.status(400).json({ error: e.message || "bad request" }) *)
catchSnippet(e) ==
  [status |-> 400,
   json |-> ErrorJson(IF e.message # <<>> THEN e.message ELSE E_badRequest)]

(* The catch block: what is answered for error e. *)
catch(b, e) == IF b = Snippet THEN catchSnippet(e) ELSE InternalError

----------------------------------------------------------------------------
(* The inputs: configurations, request bodies, Origin headers. *)

K_x == <<"x">>
K_y == <<"y">>
K_zz == <<"z","z">>
K_7 == <<"7">>
O_a == <<"h","t","t","p","s",":","/","/","a",".","e","x","a","m","p","l","e">>
O_evil == <<"h","t","t","p","s",":","/","/","e","v","i","l",".","e","x","a","m","p","l","e">>
A_owner == <<"o","w","n","e","r","@","a",".","e","x","a","m","p","l","e">>
A_shopFrom == <<"\"","S","h","o","p"," ","A","\""," ","<","s","h","o","p","@","a",".","e","x","a","m","p","l","e",">">>
A_t1 == <<"t","1","@","b",".","e","x","a","m","p","l","e">>
A_t2 == <<"t","2","@","b",".","e","x","a","m","p","l","e">>
A_plain == <<"p","l","a","i","n","@","b",".","e","x","a","m","p","l","e">>
A_c == <<"c","@","c",".","e","x","a","m","p","l","e">>
L_name == <<"Y","o","u","r"," ","<","n","a","m","e",">">>
L_email == <<"E","-","M","a","i","l">>
S_hello == <<"H","e","l","l","o">>
S_shop == <<"S","h","o","p">>
V_blank == <<" ","\r">>
V_mail == <<" ","a","@","b",".","c","o"," ">>
V_badmail == <<"a","@","b">>
V_ann == <<"<","A","n","n",">">>
V_bot == <<"b","o","t">>
V_c == <<"c">>

\* {requiredFields:["email"], allowedOrigins:[], fieldOrder:["name","email"], ...}
SiteA ==
  JObj(<< <<K_requiredFields, JArr(<<JStr(K_email)>>)>>,
          <<K_allowedOrigins, JArr(<<>>)>>,
          <<K_fieldOrder, JArr(<<JStr(K_name), JStr(K_email)>>)>>,
          <<K_to, JStr(A_owner)>>,
          <<K_from, JStr(A_shopFrom)>> >>)

SiteB ==
  JObj(<< <<K_allowedOrigins, JArr(<<JStr(O_a)>>)>>,
          <<K_requiredFields, JArr(<<JStr(K_name), JStr(K_email)>>)>>,
          <<K_fieldLabels, JObj(<< <<K_name, JStr(L_name)>>,
                                   <<K_email, JStr(L_email)>> >>)>>,
          <<K_subject, JStr(S_hello)>>,
          <<K_to, JArr(<<JStr(A_t1), JStr(A_t2)>>)>>,
          <<K_from, JStr(A_plain)>> >>)

\* A site that declares nothing but its recipient.
SiteC == JObj(<< <<K_to, JStr(A_c)>> >>)

SiteD ==
  JObj(<< <<K_requiredFields, JArr(<<JStr(K_name), JStr(K_constructor)>>)>>,
          <<K_fieldOrder, JArr(<<JStr(K_email)>>)>>,
          <<K_fieldLabels, JObj(<< <<K_name, JStr(L_name)>> >>)>>,
          <<K_subjectPrefix, JStr(S_shop)>>,
          <<K_to, JStr(A_c)>> >>)

Registry1 == JObj(<< <<K_x, SiteA>>, <<K_y, SiteB>> >>)
Registry2 == JObj(<< <<K_x, SiteC>>, <<K_y, SiteD>> >>)

Envs ==
  {EnvUnset, EnvMalformed, EnvJson(Null), EnvJson(Registry1), EnvJson(Registry2)}

Absent == [t |-> "absent"]

\* {"toString": 1}: an object String() cannot convert.
Unprintable == JObj(<< <<K_toString, JNum(1)>> >>)

FieldNames == <<K_siteId, K_name, K_email, K_hp, K_constructor, K_7>>

Reverse(q) == [i \in 1..Len(q) |-> q[Len(q) + 1 - i]]

Options(f) ==
  CASE f = K_siteId -> {Absent, JStr(K_x), JStr(K_y), JStr(K_zz), JStr(K_constructor)}
    [] f = K_name -> {Absent, Null, JStr(V_blank), JStr(V_ann), JBool(FALSE), Unprintable}
    [] f = K_email -> {Absent, JStr(V_blank), JStr(V_mail), JStr(V_badmail), JNum(0), Unprintable}
    [] f = K_hp -> {Absent, JStr(V_bot)}
    [] OTHER -> {Absent, JStr(V_c)}

Choices ==
  {<<a, b, c, d, e, f>> :
     a \in Options(FieldNames[1]), b \in Options(FieldNames[2]),
     c \in Options(FieldNames[3]), d \in Options(FieldNames[4]),
     e \in Options(FieldNames[5]), f \in Options(FieldNames[6])}

(* The object with the chosen fields, in the order of names. *)
MakeBody(names, c) ==
  JObj(SelectSeq([i \in 1..Len(names) |-> <<names[i], c[i]>>],
                 LAMBDA e : e[2] # Absent))

Bodies ==
  {Undefined}
    \cup {MakeBody(FieldNames, c) : c \in Choices}
    \cup {MakeBody(Reverse(FieldNames), Reverse(c)) : c \in Choices}

Origins == {Undefined, EmptyStr, JStr(O_a), JStr(O_evil)}

----------------------------------------------------------------------------
(* The state machine. *)

None == [t |-> "none"]

(* Distinct error details the mail call can fail with, besides an error     *)
(* that carries no message.                                                 *)
NumErrors == 2

ProviderError(i) == [message |-> IF i = 0 THEN <<>> ELSE M_provider \o Decimal(i)]

Errors == {ProviderError(i) : i \in 0..NumErrors}

Idle ==
  [pc |-> "idle", body |-> None, origin |-> None, ordered |-> <<>>,
   rows |-> <<>>, msg |-> None, sends |-> 0, outcome |-> None,
   logged |-> None, res |-> None]

(* The request's record once the handler has come to out: a response, a    *)
(* throw that the catch block logs and answers, or the await of the mail    *)
(* call.                                                                    *)
settled(b, base, out) ==
  CASE out.k = "respond" ->
         [base EXCEPT !.pc = "done",
                      !.res = [status |-> out.status, json |-> out.json]]
    [] out.k = "throw" ->
         [base EXCEPT !.pc = "done", !.logged = out.error,
                      !.res = catch(b, out.error)]
    [] OTHER ->
         [base EXCEPT !.pc = "awaiting", !.ordered = out.ordered,
                      !.rows = out.rows, !.msg = out.msg, !.sends = @ + 1]

(* The request's record when the handler reaches its first response or    *)
(* await.                                                                   *)
received(b, sites, body, origin) ==
  settled(b, [Idle EXCEPT !.body = body, !.origin = origin],
          contactHandler(b, sites, body, origin))

(* The record when the awaited mail call resolves: 200 {ok: true}. *)
resolved(rec) ==
  [rec EXCEPT !.pc = "done", !.outcome = [ok |-> TRUE],
              !.res = [status |-> 200, json |-> OkJson]]

(* The record when the awaited mail call fails with e: the catch block     *)
(* logs e and answers.                                                      *)
rejected(b, rec, e) ==
  [rec EXCEPT !.pc = "done", !.outcome = [ok |-> FALSE, error |-> e],
              !.logged = e, !.res = catch(b, e)]

InitOf(b, envs, ids) ==
  /\ build = b
  /\ env \in envs
  /\ up = load(b, env).up
  /\ SITES = load(b, env).sites
  /\ reqs = [r \in ids |-> Idle]
  /\ health = None

Init == InitOf(Server, Envs, {1})

(* Receive, had the handler kept its message in a variable of the module:  *)
(* a request reaching its await overwrites the message of every request     *)
(* still awaiting.                                                          *)
ReceiveShared(r, body, origin) ==
  LET new == received(build, SITES, body, origin)
  IN  /\ up
      /\ reqs[r].pc = "idle"
      /\ reqs' = [q \in DOMAIN reqs |->
                    IF q = r THEN new
                    ELSE IF new.pc = "awaiting" /\ reqs[q].pc = "awaiting"
                    THEN [reqs[q] EXCEPT !.msg = new.msg]
                    ELSE reqs[q]]
      /\ UNCHANGED <<build, env, up, SITES, health>>

(* A request arrives and the handler runs to its first response or await. *)
Receive(r, body, origin) ==
  /\ up
  /\ reqs[r].pc = "idle"
  /\ reqs' = [reqs EXCEPT ![r] = received(build, SITES, body, origin)]
  /\ UNCHANGED <<build, env, up, SITES, health>>

(* The mail call of request r resolves and its handler resumes. *)
DispatchOk(r) ==
  /\ reqs[r].pc = "awaiting"
  /\ reqs' = [reqs EXCEPT ![r] = resolved(@)]
  /\ UNCHANGED <<build, env, up, SITES, health>>

(* The mail call of request r throws or rejects with error e. *)
DispatchFail(r, e) ==
  /\ reqs[r].pc = "awaiting"
  /\ reqs' = [reqs EXCEPT ![r] = rejected(build, @, e)]
  /\ UNCHANGED <<build, env, up, SITES, health>>

(* GET /health *)
Health ==
  /\ up
  /\ health' = [status |-> 200, json |-> OkJson]
  /\ UNCHANGED <<build, env, up, SITES, reqs>>

At(pc) == {r \in DOMAIN reqs : reqs[r].pc = pc}

Post == \E r \in At("idle") : \E body \in Bodies, origin \in Origins : Receive(r, body, origin)
Resolve == \E r \in At("awaiting") : DispatchOk(r)
Reject == \E r \in At("awaiting") : \E e \in Errors : DispatchFail(r, e)

Next == Post \/ Resolve \/ Reject \/ Health

Spec == Init /\ [][Next]_vars

(* The handler snippet of part_000 as the running server: it declares no   *)
(* health route.                                                            *)
InitSnippet == InitOf(Snippet, Envs, {1})
NextSnippet == Post \/ Resolve \/ Reject
SpecSnippet == InitSnippet /\ [][NextSnippet]_vars

(* The SMTP server of part_001 as the running server. *)
InitSmtp == InitOf(Smtp, Envs, {1})
SpecSmtp == InitSmtp /\ [][Next]_vars

----------------------------------------------------------------------------
(* The vocabulary of the claims, stated from the configuration and the      *)
(* submission rather than from the handler's own checks.                    *)

Arrived(r) == reqs[r].pc # "idle"
Responded(r) == reqs[r].res # None
Dispatched(r) == reqs[r].sends > 0

ResponseIs(r, status, json) ==
  Responded(r) /\ reqs[r].res = [status |-> status, json |-> json]

(* The configured site registry: the mapping SITES_JSON serialises, empty   *)
(* when it serialises none.                                                 *)
Registry ==
  IF env.k = "json" /\ env.v.t = "object" THEN env.v ELSE JObj(<<>>)

(* The submission's own field k, undefined when it has none. *)
Own(o, k) == IF HasOwn(o, k) THEN OwnValue(o, k) ELSE Undefined

Submission(r) == IF reqs[r].body.t = "object" THEN reqs[r].body ELSE JObj(<<>>)

Field(r, k) == Own(Submission(r), k)

(* The request names a site key that the configuration supplied. *)
Registered(r) ==
  Field(r, K_siteId).t = "string" /\ HasOwn(Registry, Field(r, K_siteId).s)

SiteOf(r) == OwnValue(Registry, Field(r, K_siteId).s)

(* Absent, null, or a string of whitespace only. *)
Blank(v) ==
  \/ v.t \in {"undefined", "null"}
  \/ (v.t = "string" /\ \A i \in 1..Len(v.s) : v.s[i] \in WhiteSpace)

HeaderPresent(r) == reqs[r].origin # Undefined

HeaderValue(r) == reqs[r].origin

(* The site's allowed-origin list, when it declares one. *)
DeclaresOrigins(site) == Own(site, K_allowedOrigins).t = "array"
AllowedOrigins(site) == Own(site, K_allowedOrigins).a

InList(list, x) == \E i \in 1..Len(list) : list[i] = x

(* The request's origin passes: it is not the case that it carries a       *)
(* non-empty Origin header that a declared allowed-origin list lacks.       *)
OriginPermitted(r) ==
  ~(/\ HeaderPresent(r)
    /\ HeaderValue(r) # EmptyStr
    /\ DeclaresOrigins(SiteOf(r))
    /\ ~InList(AllowedOrigins(SiteOf(r)), HeaderValue(r)))

(* The site's required-field list, ["email"] when it declares none. *)
RequiredList(site) ==
  IF Own(site, K_requiredFields).t = "array"
  THEN [i \in 1..Len(Own(site, K_requiredFields).a) |-> Own(site, K_requiredFields).a[i].s]
  ELSE <<K_email>>

(* The positions in the required list of the fields blank in the submission. *)
BlankRequired(r) ==
  {i \in 1..Len(RequiredList(SiteOf(r))) : Blank(Field(r, RequiredList(SiteOf(r))[i]))}

(* s without its leading and trailing whitespace. *)
Strip(s) ==
  LET solid == {i \in 1..Len(s) : s[i] \notin WhiteSpace}
  IN  IF solid = {} THEN <<>> ELSE SubSeq(s, Min(solid), Max(solid))

(* local-part "@" domain "." rest, every part non-empty and free of         *)
(* whitespace and "@".                                                      *)
EmailShape(s) ==
  \E i, j \in 1..Len(s) :
    /\ 1 < i /\ i + 1 < j /\ j < Len(s)
    /\ s[i] = "@" /\ s[j] = "."
    /\ \A m \in 1..Len(s) : m # i => (s[m] # "@" /\ s[m] \notin WhiteSpace)

MatchesEmailPattern(v) == v.t = "string" /\ EmailShape(Strip(v.s))

(* The four validation checks. *)
AllChecksPassed(r) ==
  /\ Registered(r)
  /\ OriginPermitted(r)
  /\ BlankRequired(r) = {}
  /\ MatchesEmailPattern(Field(r, K_email))

Range(q) == {q[i] : i \in 1..Len(q)}

----------------------------------------------------------------------------
(* C3 *)

OriginError(r) == ResponseIs(r, 403, ErrorJson(E_origin))

(* C3 as stated: a request to a registered site is answered 403 "origin    *)
(* not allowed" exactly when an Origin header is present, the site's        *)
(* allowed-origin list is non-empty and the header is not in it; an empty   *)
(* list never refuses.                                                      *)
C3_Original ==
  \A r \in DOMAIN reqs :
    (Arrived(r) /\ Registered(r)) =>
      (OriginError(r) <=>
         /\ HeaderPresent(r)
         /\ DeclaresOrigins(SiteOf(r))
         /\ AllowedOrigins(SiteOf(r)) # <<>>
         /\ ~InList(AllowedOrigins(SiteOf(r)), HeaderValue(r)))

(* C3 amended: a request to a registered site is answered 403 "origin not  *)
(* allowed" exactly when it carries a non-empty Origin header, the site     *)
(* declares an allowed-origin list (empty or not) and the header is not an  *)
(* exact member of it.  A request without an Origin header (or with an      *)
(* empty one), or to a site that declares no list, is never refused for     *)
(* its origin; a site with an empty list refuses every non-empty Origin.    *)
C3_OriginRefusedIff ==
  \A r \in DOMAIN reqs :
    (Arrived(r) /\ Registered(r)) =>
      (OriginError(r) <=>
         /\ HeaderPresent(r)
         /\ HeaderValue(r) # EmptyStr
         /\ DeclaresOrigins(SiteOf(r))
         /\ ~InList(AllowedOrigins(SiteOf(r)), HeaderValue(r)))

(* A request with an Origin header to a registered site whose list is       *)
(* empty has been refused.                                                  *)
C3_Witness ==
  \E r \in DOMAIN reqs :
    /\ Registered(r)
    /\ DeclaresOrigins(SiteOf(r))
    /\ AllowedOrigins(SiteOf(r)) = <<>>
    /\ HeaderPresent(r)
    /\ OriginError(r)

----------------------------------------------------------------------------
(* C4 *)

UnknownSiteError(r) == ResponseIs(r, 400, ErrorJson(E_unknownSite))

(* C4: every request whose siteId is missing or is not a key of the         *)
(* configured registry is answered 400 "unknown siteId" and reaches neither *)
(* rendering nor the dispatcher; only configured site keys lead to a        *)
(* dispatch.                                                                *)
C4_UnknownSiteRejected ==
  \A r \in DOMAIN reqs :
    (Arrived(r) /\ ~Registered(r)) =>
      /\ UnknownSiteError(r)
      /\ reqs[r].msg = None
      /\ ~Dispatched(r)

----------------------------------------------------------------------------
(* C10 *)

(* The configuration input is absent or is not a serialised mapping. *)
ConfigMalformed == env.k \in {"unset", "malformed"} \/ env.v.t # "object"

(* C10: with a malformed or absent configuration input the process starts,  *)
(* the registry is the empty mapping, and every POST /v1/contact is         *)
(* answered 400 "unknown siteId" without a dispatch.                        *)
C10_MalformedConfigRejectsAll ==
  ConfigMalformed =>
    /\ up
    /\ SITES = JObj(<<>>)
    /\ \A r \in DOMAIN reqs :
         Arrived(r) => (UnknownSiteError(r) /\ ~Dispatched(r))

----------------------------------------------------------------------------
(* C1 *)

(* C1: for every request the dispatcher is called at most once and only    *)
(* after the four checks passed (site known, origin permitted, required     *)
(* fields non-blank, email valid); a request answered 400 or 403 never      *)
(* reaches it, a valid submission causes exactly one call, and a failed     *)
(* call is not repeated.                                                    *)
C1_DispatchOnlyAfterValidation ==
  \A r \in DOMAIN reqs :
    /\ reqs[r].sends <= 1
    /\ Dispatched(r) => AllChecksPassed(r)
    /\ (Responded(r) /\ reqs[r].res.status \in {400, 403}) => ~Dispatched(r)
    /\ (Arrived(r) /\ AllChecksPassed(r)) => reqs[r].sends = 1
    /\ (reqs[r].outcome # None /\ reqs[r].outcome # [ok |-> TRUE]) => reqs[r].sends = 1

----------------------------------------------------------------------------
(* C2 *)

(* C2: a submission that passed validation and was handed to the           *)
(* dispatcher is answered only after its dispatch call completed: 200       *)
(* {ok: true} exactly when the dispatcher reported success, and 500         *)
(* {error: "Internal error"}, the same for every error detail, when it      *)
(* threw or rejected.                                                       *)
C2_ResponseFollowsDispatch ==
  \A r \in DOMAIN reqs :
    Dispatched(r) =>
      /\ Responded(r) <=> reqs[r].outcome # None
      /\ ResponseIs(r, 200, OkJson) <=> reqs[r].outcome = [ok |-> TRUE]
      /\ (reqs[r].outcome # None /\ reqs[r].outcome # [ok |-> TRUE]) =>
           ResponseIs(r, 500, ErrorJson(E_internal))

----------------------------------------------------------------------------
(* C5 *)

MissingFieldError(r, f) == ResponseIs(r, 400, ErrorJson(E_missing \o f))

IsPrefix(p, q) == Len(p) <= Len(q) /\ SubSeq(q, 1, Len(p)) = p

AnyMissingFieldError(r) ==
  /\ Responded(r)
  /\ reqs[r].res.status = 400
  /\ IsPrefix(E_missing, reqs[r].res.json.error)

(* C5: for a request to a registered site with a permitted origin, if a    *)
(* field of the required list (["email"] by default) is blank (absent,      *)
(* null or whitespace only) the answer is 400 "missing required field: f"   *)
(* for the first blank f in declaration order, with no dispatch; values     *)
(* that are not blank, 0 and false among them, do not cause this error.     *)
C5_FirstBlankFieldReported ==
  \A r \in DOMAIN reqs :
    (Arrived(r) /\ Registered(r) /\ OriginPermitted(r)) =>
      IF BlankRequired(r) # {}
      THEN /\ MissingFieldError(r, RequiredList(SiteOf(r))[Min(BlankRequired(r))])
           /\ ~Dispatched(r)
      ELSE ~AnyMissingFieldError(r)

----------------------------------------------------------------------------
(* C6 *)

(* C6: for a request to a registered site with a permitted origin and no   *)
(* blank required field, an email field that does not match the pattern     *)
(* is answered 400 "invalid email" with no dispatch, whether or not email   *)
(* is a required field; so every dispatched message replies to the          *)
(* submission's email field, which matches the pattern.                     *)
C6_InvalidEmailRejected ==
  \A r \in DOMAIN reqs :
    /\ (Arrived(r) /\ Registered(r) /\ OriginPermitted(r) /\ BlankRequired(r) = {}
          /\ ~MatchesEmailPattern(Field(r, K_email))) =>
         (ResponseIs(r, 400, ErrorJson(E_invalidEmail)) /\ ~Dispatched(r))
    /\ Dispatched(r) =>
         /\ reqs[r].msg.replyTo = [email |-> Field(r, K_email)]
         /\ MatchesEmailPattern(Field(r, K_email))

----------------------------------------------------------------------------
(* C7, C8 *)

(* The names of the submission's fields, in the order it gives them. *)
Submitted(r) == [i \in 1..Len(Submission(r).o) |-> Submission(r).o[i][1]]

(* The submission's fields that are neither reserved nor blank, in the     *)
(* submission's order.                                                      *)
Shown(r) ==
  SelectSeq(Submitted(r), LAMBDA k : k \notin IGNORE /\ ~Blank(Field(r, k)))

ConfigOf(r) == IF Registered(r) THEN SiteOf(r) ELSE JObj(<<>>)

(* The site's configured label for field k, else the raw field name. *)
LabelFor(r, k) ==
  LET l == Own(Own(ConfigOf(r), K_fieldLabels), k)
  IN  IF l.t = "string" /\ l.s # <<>> THEN l.s ELSE k

ExpectedRow(r, k) ==
  S_rowOpen \o escString(LabelFor(r, k)) \o S_rowMid
    \o escString(String(Field(r, k))) \o S_rowClose

ExpectedLine(r, k) == LabelFor(r, k) \o S_colon \o String(Field(r, k))

(* text.split("\n") *)
RECURSIVE SplitLines(_, _)
SplitLines(s, cur) ==
  IF s = <<>> THEN <<cur>>
  ELSE IF Head(s) = "\n" THEN <<cur>> \o SplitLines(Tail(s), <<>>)
  ELSE SplitLines(Tail(s), Append(cur, Head(s)))

TextLines(r) ==
  IF reqs[r].msg.textContent = <<>> THEN <<>>
  ELSE SplitLines(reqs[r].msg.textContent, <<>>)

Occurrences(q, x) == Cardinality({i \in 1..Len(q) : q[i] = x})

(* C7: in every dispatched message each non-blank, non-reserved field of   *)
(* the submission appears exactly once in the HTML body and exactly once    *)
(* in the plaintext body, under the site's configured label if it has one   *)
(* and else under its raw name; reserved and blank fields never appear.     *)
C7_FieldsRenderedOnce ==
  \A r \in DOMAIN reqs :
    Dispatched(r) =>
      /\ Len(reqs[r].rows) = Len(Shown(r))
      /\ Len(TextLines(r)) = Len(Shown(r))
      /\ \A k \in Range(Shown(r)) :
           /\ Occurrences(reqs[r].rows, ExpectedRow(r, k)) = 1
           /\ Occurrences(TextLines(r), ExpectedLine(r, k)) = 1
      /\ reqs[r].msg.htmlContent =
           S_h2Open \o esc(reqs[r].msg.subject) \o S_h2Close
             \o join(reqs[r].rows, S_newline) \o S_htmlEnd

(* The site's display-order list, empty when it declares none. *)
DisplayOrder(r) ==
  IF Own(ConfigOf(r), K_fieldOrder).t = "array"
  THEN [i \in 1..Len(Own(ConfigOf(r), K_fieldOrder).a) |-> Own(ConfigOf(r), K_fieldOrder).a[i].s]
  ELSE <<>>

(* The names of list that are shown, each at its first position. *)
ListedShown(r) ==
  LET list == DisplayOrder(r)
      first == SelectSeq([i \in 1..Len(list) |-> i],
                         LAMBDA i : /\ list[i] \in Range(Shown(r))
                                    /\ \A j \in 1..(i - 1) : list[j] # list[i])
  IN  [n \in 1..Len(first) |-> list[first[n]]]

UnlistedShown(r) ==
  SelectSeq(Shown(r), LAMBDA k : k \notin Range(DisplayOrder(r)))

(* C8: the rendered field sequence, the same for the HTML and the          *)
(* plaintext body, is: with a non-empty display-order list, the shown       *)
(* fields the list names, in the list's order, then the shown fields it     *)
(* does not name, in submission order; without one, the shown fields in     *)
(* submission order.                                                        *)
C8_DisplayOrder ==
  \A r \in DOMAIN reqs :
    Dispatched(r) =>
      LET seq == IF DisplayOrder(r) # <<>>
                 THEN ListedShown(r) \o UnlistedShown(r)
                 ELSE Shown(r)
          labels == Or(Get(ConfigOf(r), K_fieldLabels), JObj(<<>>))
      IN  /\ reqs[r].ordered = seq
          /\ reqs[r].rows =
               [i \in 1..Len(seq) |-> htmlRow(labels, Submission(r), seq[i])]
          /\ TextLines(r) =
               [i \in 1..Len(seq) |-> textLine(labels, Submission(r), seq[i])]


----------------------------------------------------------------------------
(* C9 *)

(* Requests in flight at once. *)
NumReqs == 2

ConcEnvs == {EnvUnset, EnvJson(Registry1)}

ConcBodies ==
  {Undefined,
   MakeBody(FieldNames, <<JStr(K_x), JStr(V_ann), JStr(V_mail), Absent, Absent, Absent>>),
   MakeBody(FieldNames, <<JStr(K_x), Absent, JStr(V_badmail), Absent, Absent, Absent>>),
   MakeBody(FieldNames, <<JStr(K_y), JStr(V_ann), JStr(V_mail), JStr(V_bot), Absent, JStr(V_c)>>),
   MakeBody(FieldNames, <<JStr(K_y), Unprintable, JStr(V_mail), Absent, Absent, Absent>>),
   MakeBody(FieldNames, <<JStr(K_constructor), Absent, JStr(V_mail), Absent, Absent, Absent>>)}

ConcOrigins == {Undefined, JStr(O_a)}

InitConc == InitOf(Server, ConcEnvs, 1..NumReqs)

PostConc ==
  \E r \in At("idle") : \E body \in ConcBodies, origin \in ConcOrigins :
    Receive(r, body, origin)

NextConc == PostConc \/ Resolve \/ Reject \/ Health

SpecConc == InitConc /\ [][NextConc]_vars

(* The record of request r had it been the only request: computed from its *)
(* own submission and Origin header, the registry as loaded, and the        *)
(* outcome of its own mail call.                                            *)
Alone(r) ==
  LET first == received(build, load(build, env).sites, reqs[r].body, reqs[r].origin)
  IN  IF reqs[r].outcome = None THEN first
      ELSE IF reqs[r].outcome.ok THEN resolved(first)
      ELSE rejected(build, first, reqs[r].outcome.error)

(* C9: with several requests in flight and interleaved at the await of the *)
(* mail call, the registry is in every reachable state the one loaded at    *)
(* startup, and each request's response and message (sender, recipients,    *)
(* reply-to, subject, HTML, text) are those of running that request alone   *)
(* with its own submission, Origin header and mail-call outcome.            *)
C9_RequestsIndependent ==
  /\ SITES = load(build, env).sites
  /\ \A r \in DOMAIN reqs : Arrived(r) => reqs[r] = Alone(r)

(* Two requests to different sites, with different messages, are awaiting  *)
(* their mail calls at once.                                                *)
C9_Witness ==
  \E r, q \in DOMAIN reqs :
    /\ r # q
    /\ reqs[r].pc = "awaiting" /\ reqs[q].pc = "awaiting"
    /\ Field(r, K_siteId) # Field(q, K_siteId)
    /\ reqs[r].msg # reqs[q].msg

============================================================================
